---- MODULE Spec2Model ----
(***************************************************************************)
(* Model of addon/mixins/adapter-fetch.ts: the fetch-based replacement of  *)
(* the REST adapter's ajax hooks.                                          *)
(*                                                                         *)
(* JavaScript values are records [t, s, kv, flag]: t is the type tag, s    *)
(* the text of a string / number / boolean, kv the insertion-ordered       *)
(* members of an object (a sequence of <<key, value>>), and flag the       *)
(* object's isAdapterError property.  Text is a TLA+ string.               *)
(* Objects the code can alias and mutate (the caller's options object, the *)
(* caller's headers object, the adapter's headers object) live in heaps    *)
(* and are named by references; reference 0 is `undefined`.                *)
(***************************************************************************)
EXTENDS Integers, Sequences, FiniteSets, TLC

VARIABLES
    hdrObjs,        \* heap of header objects: sequence of maps key -> value
    optObjs,        \* heap of caller option objects
    adapterHeaders, \* adapter.get('headers'): a reference into hdrObjs, or 0
    hdrObjs0,       \* the header heap as the caller built it
    optObjs0,       \* the option heap as the caller built it
    ret,            \* the last direct ajaxOptions call: arguments and result
    pc,             \* per ajax call: position in the promise chain
    args,           \* per ajax call: [url, type, optRef]
    requestData,    \* per ajax call: the requestData constant of ajax
    sent,           \* per ajax call: the descriptor as fetch received it
    response,       \* per ajax call: the transport response
    payload,        \* per ajax call: the value determineBodyPromise resolved to
    outcome,        \* per ajax call: the settlement of the promise ajax returned
    log             \* per ajax call: the hooks invoked and what they were handed or
                    \* gave back, in order

vars == <<hdrObjs, optObjs, adapterHeaders, hdrObjs0, optObjs0, ret,
          pc, args, requestData, sent, response, payload, outcome, log>>

----------------------------------------------------------------------------
(* Bounds *)

MaxCalls == 2   \* ajax calls in flight together
MaxKeys == 2    \* keys of a `data` object
MaxHdrs == 1    \* keys of a caller-supplied headers object

Calls == 1..MaxCalls

----------------------------------------------------------------------------
(* JavaScript values *)

Undefined == [t |-> "undefined", s |-> "", kv |-> <<>>, flag |-> FALSE]
Null == [t |-> "null", s |-> "", kv |-> <<>>, flag |-> FALSE]
Bool(b) == [t |-> "boolean", s |-> IF b THEN "true" ELSE "false", kv |-> <<>>, flag |-> FALSE]
Num(digits) == [t |-> "number", s |-> digits, kv |-> <<>>, flag |-> FALSE]
Str(text) == [t |-> "string", s |-> text, kv |-> <<>>, flag |-> FALSE]
Obj(members) == [t |-> "object", s |-> "", kv |-> members, flag |-> FALSE]
ErrorVal(name) == [t |-> "error", s |-> name, kv |-> <<>>, flag |-> FALSE]
AdapterError(name) == [t |-> "error", s |-> name, kv |-> <<>>, flag |-> TRUE]

\* ToBoolean: what `x || y`, `x && y` and `if (x)` test.
Truthy(v) ==
    CASE v.t = "undefined" -> FALSE
      [] v.t = "null" -> FALSE
      [] v.t = "boolean" -> v.s = "true"
      [] v.t = "number" -> v.s # "0"
      [] v.t = "string" -> v.s # ""
      [] OTHER -> TRUE

\* Object.keys(v).length for the values `data` takes here.
ObjectKeysLength(v) == IF v.t = "object" THEN Len(v.kv) ELSE 0

----------------------------------------------------------------------------
(* Text *)

CharAt(text, i) == SubSeq(text, i, i)
Drop(text, n) == SubSeq(text, n + 1, Len(text))
StartsWith(text, p) == Len(text) >= Len(p) /\ SubSeq(text, 1, Len(p)) = p

\* String.prototype.indexOf for a one-character needle: 0-based, -1 if absent.
indexOf(text, ch) ==
    LET hits == {i \in 1..Len(text) : CharAt(text, i) = ch}
    IN  IF hits = {} THEN -1
        ELSE (CHOOSE i \in hits : \A j \in hits : i <= j) - 1

Digits == {"0", "1", "2", "3", "4", "5", "6", "7", "8", "9"}

RECURSIVE DigitRun(_)
DigitRun(text) ==
    IF text # "" /\ CharAt(text, 1) \in Digits THEN 1 + DigitRun(Drop(text, 1)) ELSE 0

----------------------------------------------------------------------------
(* JSON.parse, on whitespace-free text without escapes or nesting arrays:  *)
(* null, true, false, non-negative integers, strings, and objects.         *)

ParseFail == [ok |-> FALSE, val |-> Undefined, rest |-> ""]
ParseOk(v, rest) == [ok |-> TRUE, val |-> v, rest |-> rest]

ParseString(text) ==
    \* text starts after the opening quote
    LET close == indexOf(text, "\"")
    IN  IF close = -1 THEN ParseFail
        ELSE ParseOk(Str(SubSeq(text, 1, close)), Drop(text, close + 1))

RECURSIVE ParseValue(_)
RECURSIVE ParseMembers(_, _)

ParseValue(text) ==
    CASE StartsWith(text, "null") -> ParseOk(Null, Drop(text, 4))
      [] StartsWith(text, "true") -> ParseOk(Bool(TRUE), Drop(text, 4))
      [] StartsWith(text, "false") -> ParseOk(Bool(FALSE), Drop(text, 5))
      [] StartsWith(text, "0") -> ParseOk(Num("0"), Drop(text, 1))
      [] DigitRun(text) > 0 ->
            ParseOk(Num(SubSeq(text, 1, DigitRun(text))), Drop(text, DigitRun(text)))
      [] StartsWith(text, "\"") -> ParseString(Drop(text, 1))
      [] StartsWith(text, "{}") -> ParseOk(Obj(<<>>), Drop(text, 2))
      [] StartsWith(text, "{") -> ParseMembers(Drop(text, 1), <<>>)
      [] OTHER -> ParseFail

ParseMembers(text, acc) ==
    \* text starts at a member's key; acc holds the members read so far
    IF ~StartsWith(text, "\"") THEN ParseFail
    ELSE LET k == ParseString(Drop(text, 1))
         IN  IF ~k.ok \/ ~StartsWith(k.rest, ":") THEN ParseFail
             ELSE LET v == ParseValue(Drop(k.rest, 1))
                      members == Append(acc, <<k.val.s, v.val>>)
                  IN  IF ~v.ok THEN ParseFail
                      ELSE IF StartsWith(v.rest, "}") THEN ParseOk(Obj(members), Drop(v.rest, 1))
                      ELSE IF StartsWith(v.rest, ",") THEN ParseMembers(Drop(v.rest, 1), members)
                      ELSE ParseFail

\* JSON.parse(text): [threw |-> TRUE] stands for the SyntaxError it throws.
JSONparse(text) ==
    LET r == ParseValue(text)
    IN  IF r.ok /\ r.rest = "" THEN [threw |-> FALSE, val |-> r.val]
        ELSE [threw |-> TRUE, val |-> Undefined]

----------------------------------------------------------------------------
(* JSON.stringify: members whose value is undefined are dropped; the       *)
(* result for undefined itself is undefined.                               *)

RECURSIVE StringifyText(_)
RECURSIVE StringifyMembers(_, _)

StringifyText(v) ==
    CASE v.t = "string" -> "\"" \o v.s \o "\""
      [] v.t = "object" -> "{" \o StringifyMembers(v.kv, TRUE) \o "}"
      [] v.t = "null" -> "null"
      [] OTHER -> v.s

StringifyMembers(members, first) ==
    IF members = <<>> THEN ""
    ELSE LET m == Head(members)
         IN  IF m[2].t = "undefined" THEN StringifyMembers(Tail(members), first)
             ELSE (IF first THEN "" ELSE ",")
                  \o "\"" \o m[1] \o "\":" \o StringifyText(m[2])
                  \o StringifyMembers(Tail(members), FALSE)

JSONstringify(v) == IF v.t = "undefined" THEN Undefined ELSE Str(StringifyText(v))

----------------------------------------------------------------------------
(* utils/serialize-query-params: key=value pairs joined by `&`; null and   *)
(* undefined values serialize as the empty string.                         *)

RECURSIVE serializeQueryParams(_)
serializeQueryParams(data) ==
    IF data.kv = <<>> THEN ""
    ELSE LET m == Head(data.kv)
             rest == [data EXCEPT !.kv = Tail(data.kv)]
         IN  m[1] \o "=" \o m[2].s \o (IF rest.kv = <<>> THEN "" ELSE "&" \o serializeQueryParams(rest))

----------------------------------------------------------------------------
(* Header objects: maps from header name to value.                         *)

EmptyMap == [k \in {} |-> ""]

\* Object.assign(target, source): source's keys overwrite target's.
assign(target, source) ==
    [k \in (DOMAIN target) \cup (DOMAIN source) |->
        IF k \in DOMAIN source THEN source[k] ELSE target[k]]

\* headers[key] used as a condition: the key is present with a non-empty value.
HeaderTruthy(map, key) == key \in DOMAIN map /\ map[key] # ""

SetHeader(map, key, value) ==
    [k \in (DOMAIN map) \cup {key} |-> IF k = key THEN value ELSE map[k]]

----------------------------------------------------------------------------
(* mungOptionsForFetch, statement by statement, on st = [o, H]: o the      *)
(* local `options` object and H the heap of header objects.                *)

\* const options = assign({credentials: 'same-origin'}, _options)
CopyOptions(_options, H) ==
    [o |-> [credentials |-> "same-origin", url |-> _options.url, type |-> _options.type,
            data |-> _options.data, headers |-> _options.headers,
            method |-> "", body |-> Undefined],
     H |-> H]

\* if (adapterHeaders) options.headers = assign(options.headers || {}, adapterHeaders)
MergeAdapterHeaders(st, adapterRef) ==
    IF adapterRef = 0 THEN st
    ELSE LET fresh == st.o.headers = 0
             H1 == IF fresh THEN Append(st.H, EmptyMap) ELSE st.H
             target == IF fresh THEN Len(H1) ELSE st.o.headers
         IN  [o |-> [st.o EXCEPT !.headers = target],
              H |-> [H1 EXCEPT ![target] = assign(H1[target], H1[adapterRef])]]

\* options.method = options.type || 'GET'
ResolveMethod(st) ==
    [st EXCEPT !.o.method = IF st.o.type # "" THEN st.o.type ELSE "GET"]

TranslateDataNoKeyCount(st) ==
    IF ~Truthy(st.o.data) THEN st
    ELSE IF st.o.method = "GET" \/ st.o.method = "HEAD"
         THEN LET queryParamDelimiter == IF indexOf(st.o.url, "?") > -1 THEN "&" ELSE "?"
              IN  [st EXCEPT !.o.url = st.o.url \o queryParamDelimiter
                                        \o serializeQueryParams(st.o.data)]
         ELSE [st EXCEPT !.o.body = JSONstringify(st.o.data)]

TranslateDataAlwaysQuestionMark(st) ==
    IF ~Truthy(st.o.data) THEN st
    ELSE IF st.o.method = "GET" \/ st.o.method = "HEAD"
         THEN IF ObjectKeysLength(st.o.data) # 0
              THEN [st EXCEPT !.o.url = st.o.url \o "?" \o serializeQueryParams(st.o.data)]
              ELSE st
         ELSE [st EXCEPT !.o.body = JSONstringify(st.o.data)]

\* if (options.data) { ... }: the query string for GET and HEAD, the body otherwise
TranslateData(st) ==
    IF ~Truthy(st.o.data) THEN st
    ELSE IF st.o.method = "GET" \/ st.o.method = "HEAD"
         THEN IF ObjectKeysLength(st.o.data) # 0
              THEN LET queryParamDelimiter == IF indexOf(st.o.url, "?") > -1 THEN "&" ELSE "?"
                   IN  [st EXCEPT !.o.url = st.o.url \o queryParamDelimiter
                                             \o serializeQueryParams(st.o.data)]
              ELSE st
         ELSE [st EXCEPT !.o.body = JSONstringify(st.o.data)]

\* the default 'Content-Type' of a request with a body
DefaultContentType(st) ==
    IF /\ st.o.method # "GET"
       /\ Truthy(st.o.body)
       /\ \/ st.o.headers = 0
          \/ ~(\/ HeaderTruthy(st.H[st.o.headers], "Content-Type")
               \/ HeaderTruthy(st.H[st.o.headers], "content-type"))
    THEN LET fresh == st.o.headers = 0
             H1 == IF fresh THEN Append(st.H, EmptyMap) ELSE st.H
             target == IF fresh THEN Len(H1) ELSE st.o.headers
         IN  [o |-> [st.o EXCEPT !.headers = target],
              H |-> [H1 EXCEPT ![target] =
                        SetHeader(H1[target], "Content-Type", "application/json; charset=utf-8")]]
    ELSE st

mungOptionsForFetch(_options, adapterRef, H) ==
    DefaultContentType(TranslateData(ResolveMethod(
        MergeAdapterHeaders(CopyOptions(_options, H), adapterRef))))

----------------------------------------------------------------------------
(* ajaxOptions(url, type, options = {}) on the heaps O (option objects)    *)
(* and H (header objects).  optRef = 0 is an omitted `options`.            *)

NewOptions == [url |-> Undefined, type |-> Undefined, data |-> Undefined, headers |-> 0]

ajaxOptions(url, type, optRef, O, H, adapterRef) ==
    LET O1 == IF optRef = 0 THEN Append(O, NewOptions) ELSE O
        ref == IF optRef = 0 THEN Len(O1) ELSE optRef
        \* options.url = url; options.type = type
        O2 == [O1 EXCEPT ![ref].url = Str(url), ![ref].type = Str(type)]
        \* mungOptionsForFetch({...options, url, type}, this.adapter)
        st == mungOptionsForFetch([url |-> url, type |-> type, data |-> O2[ref].data,
                                   headers |-> O2[ref].headers], adapterRef, H)
    IN  [hash |-> st.o, O |-> O2, H |-> st.H]

\* What the transport reads from a descriptor: its fields, headers by value.
Descriptor(hash, H) ==
    [url |-> hash.url, method |-> hash.method, body |-> hash.body,
     credentials |-> hash.credentials,
     hasHeaders |-> hash.headers # 0,
     headers |-> IF hash.headers # 0 THEN H[hash.headers] ELSE EmptyMap]

----------------------------------------------------------------------------
(* determineBodyPromise: the callback run on the text of the body.         *)

\* determineBodyPayload with the HEAD case left out of the no-content test
determineBodyPayloadNoHead(resp, reqData) ==
    LET parsed == JSONparse(resp.text)
    IN  IF ~parsed.threw THEN [payload |-> parsed.val, warned |-> FALSE]
        ELSE IF resp.ok /\ (resp.status = 204 \/ resp.status = 205)
             THEN [payload |-> Undefined, warned |-> FALSE]
             ELSE [payload |-> Str(resp.text), warned |-> TRUE]

determineBodyPayload(resp, reqData) ==
    LET parsed == JSONparse(resp.text)
    IN  IF ~parsed.threw THEN [payload |-> parsed.val, warned |-> FALSE]
        ELSE IF resp.ok /\ (resp.status = 204 \/ resp.status = 205 \/ reqData.method = "HEAD")
             THEN [payload |-> Undefined, warned |-> FALSE]
             ELSE [payload |-> Str(resp.text), warned |-> TRUE]

----------------------------------------------------------------------------
(* The host adapter's hooks.  What they return is the host's choice: the   *)
(* `kind` argument names it.                                               *)

HandleKinds == {"payload", "undefined", "adapterError", "object"}
ParseKinds == {"same", "undefined"}

handleResponse(kind, status, body, reqData) ==
    CASE kind = "payload" -> body
      [] kind = "undefined" -> Undefined
      [] kind = "adapterError" -> AdapterError("AdapterError")
      [] OTHER -> Obj(<< <<"status", Str("handled")>> >>)

parseErrorResponse(kind, responseText) ==
    IF kind = "same" THEN responseText ELSE Undefined

----------------------------------------------------------------------------
(* The hooks of the mixin.  A settlement is [state, value].                *)

Resolved(v) == [state |-> "resolved", value |-> v]
Rejected(v) == [state |-> "rejected", value |-> v]
Pending == [state |-> "pending", value |-> Undefined]

Event(name, v) == [ev |-> name, arg |-> v]

\* ajaxSuccess returning whatever handleResponse returned
ajaxSuccessAlwaysReturns(returnResponse) == Resolved(returnResponse)

\* ajaxSuccess, after handleResponse returned returnResponse
ajaxSuccess(returnResponse) ==
    IF Truthy(returnResponse) /\ returnResponse.flag
    THEN Rejected(returnResponse)
    ELSE Resolved(returnResponse)

parseFetchResponseForError(resp, body) ==
    IF Truthy(body) THEN body ELSE Str(resp.statusText)

\* ajaxError without a transport error: the payload handed to handleResponse
ajaxErrorPayload(parseKind, resp, body) ==
    LET parsedResponse == parseFetchResponseForError(resp, body)
        parsedError == parseErrorResponse(parseKind, parsedResponse)
    IN  IF Truthy(parsedError) THEN parsedError ELSE body

\* ajaxError(adapter, response, payload, requestData, error)
ajaxError(handleKind, parseKind, resp, body, reqData, error) ==
    IF Truthy(error) THEN error
    ELSE handleResponse(handleKind, resp.status, ajaxErrorPayload(parseKind, resp, body), reqData)

\* the success branch handing over the payload as decoded
SuccessPayloadAsDecoded(body) == body

\* payload || '' : what the success branch of ajax hands to ajaxSuccess
SuccessPayload(body) == IF Truthy(body) THEN body ELSE Str("")

----------------------------------------------------------------------------
(* Inputs *)

Methods == {"GET", "HEAD", "POST", "PUT", "PATCH", "DELETE"}
Urls == {"/widgets", "/widgets?page=2"}

DataKeys == {"name", "sort"}
DataValues == {Str("id"), Num("1"), Undefined}

\* the objects with at most n members over DataKeys, keys distinct, in insertion order
RECURSIVE DataMembers(_)
DataMembers(n) ==
    IF n = 0 THEN {<<>>}
    ELSE DataMembers(n - 1) \cup
         {Append(m, <<k, v>>) : m \in {x \in DataMembers(n - 1) : Len(x) = n - 1},
                                k \in DataKeys, v \in DataValues}

DistinctKeys(m) == \A i, j \in 1..Len(m) : i # j => m[i][1] # m[j][1]

DataInputs == {Undefined} \cup {Obj(m) : m \in {x \in DataMembers(MaxKeys) : DistinctKeys(x)}}

HeaderKeys == {"Content-Type", "content-type", "Content-type", "X-Id"}
HeaderValues == {"text/plain", ""}

CallerHeaderInputs ==
    UNION {[S -> HeaderValues] : S \in {T \in SUBSET HeaderKeys : Cardinality(T) <= MaxHdrs}}

AdapterHeaderInputs ==
    UNION {[S -> {"application/xml"}] : S \in SUBSET {"Content-Type", "X-Auth"}}

StatusText(status) ==
    CASE status = 200 -> "OK"
      [] status = 204 -> "No Content"
      [] status = 205 -> "Reset Content"
      [] status = 404 -> "Not Found"
      [] OTHER -> ""

\* a Response: ok is true exactly for the statuses 200..299
Responses(statuses, texts) ==
    {[status |-> st, ok |-> st \in 200..299, statusText |-> StatusText(st), text |-> tx] :
        st \in statuses, tx \in texts}

NoResponse == [status |-> 0, ok |-> FALSE, statusText |-> "", text |-> ""]
NoArgs == [url |-> "", type |-> "", optRef |-> 0]
NoRequestData == [url |-> "", method |-> ""]
NoDescriptor ==
    [url |-> "", method |-> "", body |-> Undefined, credentials |-> "",
     hasHeaders |-> FALSE, headers |-> EmptyMap]
NoHash ==
    [credentials |-> "", url |-> "", type |-> "", data |-> Undefined, headers |-> 0,
     method |-> "", body |-> Undefined]
NoRet == [called |-> FALSE, url |-> "", type |-> "", optRef |-> 0, hash |-> NoHash]

----------------------------------------------------------------------------
(* Initial states *)

InitCalls ==
    /\ ret = NoRet
    /\ pc = [c \in Calls |-> "idle"]
    /\ args = [c \in Calls |-> NoArgs]
    /\ requestData = [c \in Calls |-> NoRequestData]
    /\ sent = [c \in Calls |-> NoDescriptor]
    /\ response = [c \in Calls |-> NoResponse]
    /\ payload = [c \in Calls |-> Undefined]
    /\ outcome = [c \in Calls |-> Pending]
    /\ log = [c \in Calls |-> <<>>]

\* One options object, with or without a headers object of its own; the adapter has
\* no headers, headers of its own, or the very object the caller passes.
InitMung ==
    /\ \E ch \in CallerHeaderInputs :
           \/ hdrObjs = <<ch>> /\ adapterHeaders \in {0, 1}
           \/ \E ah \in AdapterHeaderInputs : hdrObjs = <<ch, ah>> /\ adapterHeaders = 2
    /\ \E d \in DataInputs, h \in {0, 1} :
           optObjs = <<[url |-> Undefined, type |-> Undefined, data |-> d, headers |-> h]>>
    /\ hdrObjs0 = hdrObjs
    /\ optObjs0 = optObjs
    /\ InitCalls

\* One options object carrying data; no headers anywhere.
InitOne ==
    /\ hdrObjs = <<>>
    /\ optObjs = <<[url |-> Undefined, type |-> Undefined,
                    data |-> Obj(<< <<"name", Str("a")>> >>), headers |-> 0]>>
    /\ adapterHeaders = 0
    /\ hdrObjs0 = hdrObjs
    /\ optObjs0 = optObjs
    /\ InitCalls

\* An options object with data and a headers object, an options object with neither;
\* the adapter has headers of its own.
Init ==
    /\ hdrObjs = <<EmptyMap, [k \in {"X-Auth"} |-> "token"]>>
    /\ optObjs = <<[url |-> Undefined, type |-> Undefined,
                    data |-> Obj(<< <<"name", Str("a")>> >>), headers |-> 1],
                   [url |-> Undefined, type |-> Undefined, data |-> Undefined, headers |-> 0]>>
    /\ adapterHeaders = 2
    /\ hdrObjs0 = hdrObjs
    /\ optObjs0 = optObjs
    /\ InitCalls

----------------------------------------------------------------------------
(* Actions *)

CallVars == <<pc, args, requestData, sent, response, payload, outcome, log>>
HeapHistory == <<adapterHeaders, hdrObjs0, optObjs0>>

\* A direct call of the ajaxOptions hook.
AjaxOptionsCall(urls, types) ==
    /\ ~ret.called
    /\ \E url \in urls, type \in types, optRef \in 0..Len(optObjs0) :
         LET r == ajaxOptions(url, type, optRef, optObjs, hdrObjs, adapterHeaders)
         IN  /\ ret' = [called |-> TRUE, url |-> url, type |-> type, optRef |-> optRef,
                        hash |-> r.hash]
             /\ optObjs' = r.O
             /\ hdrObjs' = r.H
    /\ UNCHANGED <<HeapHistory, CallVars>>

\* ajax(url, type, options) up to the return of its promise: requestData, ajaxOptions,
\* and _ajaxRequest -> _fetchRequest -> fetch(hash.url, hash).
Ajax(c, urls, types, refs) ==
    /\ pc[c] = "idle"
    /\ \E url \in urls, type \in types, optRef \in refs :
         LET r == ajaxOptions(url, type, optRef, optObjs, hdrObjs, adapterHeaders)
         IN  /\ args' = [args EXCEPT ![c] = [url |-> url, type |-> type, optRef |-> optRef]]
             /\ requestData' = [requestData EXCEPT ![c] = [url |-> url, method |-> type]]
             /\ optObjs' = r.O
             /\ hdrObjs' = r.H
             /\ sent' = [sent EXCEPT ![c] = Descriptor(r.hash, r.H)]
    /\ log' = [log EXCEPT ![c] = Append(@, Event("fetch", Undefined))]
    /\ pc' = [pc EXCEPT ![c] = "SENDING"]
    /\ UNCHANGED <<HeapHistory, ret, response, payload, outcome>>

\* a catch handler that issues the request again instead of rethrowing
TransportRejectRetries(c, errors) ==
    /\ pc[c] = "SENDING"
    /\ Len(log[c]) < 4
    /\ \E error \in errors :
         log' = [log EXCEPT ![c] = @ \o <<Event("transportRejected", error),
                                          Event("fetch", Undefined)>>]
    /\ UNCHANGED <<hdrObjs, optObjs, HeapHistory, ret, pc, args, requestData, sent,
                   response, payload, outcome>>

\* The transport promise rejects: .catch(error => { throw error }) rethrows, and both
\* .then callbacks are skipped.
TransportReject(c, errors) ==
    /\ pc[c] = "SENDING"
    /\ \E error \in errors :
         /\ outcome' = [outcome EXCEPT ![c] = Rejected(error)]
         /\ log' = [log EXCEPT ![c] = Append(@, Event("transportRejected", error))]
    /\ pc' = [pc EXCEPT ![c] = "FAILURE"]
    /\ UNCHANGED <<hdrObjs, optObjs, HeapHistory, ret, args, requestData, sent,
                   response, payload>>

\* The transport promise resolves: the first .then callback calls
\* determineBodyPromise, which calls response.text().
TransportResolve(c, responses) ==
    /\ pc[c] = "SENDING"
    /\ \E resp \in responses : response' = [response EXCEPT ![c] = resp]
    /\ log' = [log EXCEPT ![c] = Append(@, Event("text", Undefined))]
    /\ pc' = [pc EXCEPT ![c] = "AWAITING_BODY"]
    /\ UNCHANGED <<hdrObjs, optObjs, HeapHistory, ret, args, requestData, sent,
                   payload, outcome>>

\* response.text() resolves: the callback of determineBodyPromise decodes the body.
BodyRead(c) ==
    /\ pc[c] = "AWAITING_BODY"
    /\ LET d == determineBodyPayload(response[c], requestData[c])
       IN  /\ payload' = [payload EXCEPT ![c] = d.payload]
           /\ log' = [log EXCEPT ![c] =
                        IF d.warned
                        THEN Append(Append(@, Event("parse", d.payload)), Event("warn", d.payload))
                        ELSE Append(@, Event("parse", d.payload))]
    /\ pc' = [pc EXCEPT ![c] = "CLASSIFYING"]
    /\ UNCHANGED <<hdrObjs, optObjs, HeapHistory, ret, args, requestData, sent,
                   response, outcome>>

\* The second .then callback, response.ok: return this.ajaxSuccess(..., payload || '', ...)
ClassifySuccess(c, handleKinds) ==
    /\ pc[c] = "CLASSIFYING"
    /\ response[c].ok
    /\ \E hk \in handleKinds :
         LET handed == SuccessPayload(payload[c])
             returnResponse == handleResponse(hk, response[c].status, handed, requestData[c])
             settled == ajaxSuccess(returnResponse)
         IN  /\ outcome' = [outcome EXCEPT ![c] = settled]
             /\ log' = [log EXCEPT ![c] =
                          @ \o <<Event("ajaxSuccess", handed),
                                  Event("handleResponse", handed),
                                  Event("returned", returnResponse)>>]
             /\ pc' = [pc EXCEPT ![c] =
                          IF settled.state = "resolved" THEN "SUCCESS" ELSE "FAILURE"]
    /\ UNCHANGED <<hdrObjs, optObjs, HeapHistory, ret, args, requestData, sent,
                   response, payload>>

\* the failure branch returning the value of ajaxError instead of throwing it
ClassifyFailureReturns(c, handleKinds, parseKinds) ==
    /\ pc[c] = "CLASSIFYING"
    /\ ~response[c].ok
    /\ \E hk \in handleKinds, pk \in parseKinds :
         LET thrown == ajaxError(hk, pk, response[c], payload[c], requestData[c], Undefined)
         IN  /\ outcome' = [outcome EXCEPT ![c] = Resolved(thrown)]
             /\ log' = [log EXCEPT ![c] =
                          @ \o <<Event("ajaxError", payload[c]),
                                  Event("handleResponse",
                                        ajaxErrorPayload(pk, response[c], payload[c])),
                                  Event("returned", thrown)>>]
    /\ pc' = [pc EXCEPT ![c] = "SUCCESS"]
    /\ UNCHANGED <<hdrObjs, optObjs, HeapHistory, ret, args, requestData, sent,
                   response, payload>>

\* The second .then callback, !response.ok: throw this.ajaxError(this, response, payload, requestData)
ClassifyFailure(c, handleKinds, parseKinds) ==
    /\ pc[c] = "CLASSIFYING"
    /\ ~response[c].ok
    /\ \E hk \in handleKinds, pk \in parseKinds :
         LET thrown == ajaxError(hk, pk, response[c], payload[c], requestData[c], Undefined)
         IN  /\ outcome' = [outcome EXCEPT ![c] = Rejected(thrown)]
             /\ log' = [log EXCEPT ![c] =
                          @ \o <<Event("ajaxError", payload[c]),
                                  Event("handleResponse",
                                        ajaxErrorPayload(pk, response[c], payload[c])),
                                  Event("returned", thrown)>>]
    /\ pc' = [pc EXCEPT ![c] = "FAILURE"]
    /\ UNCHANGED <<hdrObjs, optObjs, HeapHistory, ret, args, requestData, sent,
                   response, payload>>

----------------------------------------------------------------------------
(* Specifications *)

TransportErrors == {ErrorVal("TypeError"), ErrorVal("AbortError")}

BodyTexts == {"", "null", "false", "0", "\"\"", "\"ok\"", "{}", "oops"}
Statuses == {200, 204, 205, 404, 500}

\* ajaxOptions applied to every input.
NextMung == AjaxOptionsCall(Urls, Methods \cup {""})

SpecMung == InitMung /\ [][NextMung]_vars

\* One ajax call, every response.
NextOne ==
    \/ Ajax(1, {"/widgets"}, {"GET", "HEAD", "POST", "DELETE"}, {0, 1})
    \/ TransportReject(1, TransportErrors)
    \/ TransportResolve(1, Responses(Statuses, BodyTexts))
    \/ BodyRead(1)
    \/ ClassifySuccess(1, HandleKinds)
    \/ ClassifyFailure(1, HandleKinds, ParseKinds)

SpecOne == InitOne /\ [][NextOne]_vars

\* Concurrent ajax calls on one adapter.
Next ==
    \E c \in Calls :
        \/ Ajax(c, {"/widgets"}, {"GET", "POST"}, 1..Len(optObjs0))
        \/ TransportReject(c, {ErrorVal("TypeError")})
        \/ TransportResolve(c, Responses({200, 404}, {"{\"name\":\"a\"}"}))
        \/ BodyRead(c)
        \/ ClassifySuccess(c, {"payload", "adapterError"})
        \/ ClassifyFailure(c, {"payload", "adapterError"}, {"same"})

Spec == Init /\ [][Next]_vars

----------------------------------------------------------------------------
(* Properties of mungOptionsForFetch and ajaxOptions, under SpecMung       *)

\* the `data` the caller passed to the ajaxOptions call
CallerData == IF ret.optRef = 0 THEN Undefined ELSE optObjs0[ret.optRef].data

\* the headers the caller passed, and the adapter's, as they were before the call
CallerHeaders ==
    IF ret.optRef = 0 \/ optObjs0[ret.optRef].headers = 0 THEN EmptyMap
    ELSE hdrObjs0[optObjs0[ret.optRef].headers]
AdapterHeaders0 == IF adapterHeaders = 0 THEN EmptyMap ELSE hdrObjs0[adapterHeaders]

\* caller headers overlaid with adapter headers
MergedHeaders ==
    [k \in (DOMAIN CallerHeaders) \cup (DOMAIN AdapterHeaders0) |->
        IF k \in DOMAIN AdapterHeaders0 THEN AdapterHeaders0[k] ELSE CallerHeaders[k]]

\* the headers of the returned descriptor
ReturnedHeaders == IF ret.hash.headers = 0 THEN EmptyMap ELSE hdrObjs[ret.hash.headers]

ContainsChar(text, ch) == \E i \in 1..Len(text) : SubSeq(text, i, i) = ch

BodyLess == {"GET", "HEAD"}

\* C1: when the resolved method is GET or HEAD and data has at least one key, the
\* returned url is the input url, then `&` if the input url contains `?` and `?`
\* otherwise, then the serialized data; the data is not placed into body.
C1_QueryString ==
    (ret.called /\ ret.hash.method \in BodyLess /\ CallerData.t = "object"
                /\ Len(CallerData.kv) >= 1)
    => /\ ret.hash.url = ret.url \o (IF ContainsChar(ret.url, "?") THEN "&" ELSE "?")
                                 \o serializeQueryParams(CallerData)
       /\ ret.hash.body = Undefined

C1_Witness ==
    /\ ret.called
    /\ ret.type = "HEAD"
    /\ CallerData = Obj(<< <<"sort", Str("id")>>, <<"name", Num("1")>> >>)
    /\ ret.hash.url = "/widgets?page=2&sort=id&name=1"
    /\ ret.hash.body = Undefined

IsContentTypeKey(key) == key \in {"Content-Type", "content-type", "Content-type"}

DefaultContentTypeValue == "application/json; charset=utf-8"

ContentTypeAdded ==
    /\ "Content-Type" \in DOMAIN ReturnedHeaders
    /\ ReturnedHeaders["Content-Type"] = DefaultContentTypeValue
    /\ ("Content-Type" \in DOMAIN MergedHeaders
            => MergedHeaders["Content-Type"] # DefaultContentTypeValue)

\* C2: when the resolved method is neither GET nor HEAD and data is non-empty, body is
\* the JSON encoding of data, the default Content-Type is added if and only if the
\* merged headers hold no content-type key under any letter-casing, and a supplied
\* content-type value is never overwritten.
C2_ContentTypeAnyCasing ==
    (ret.called /\ ret.hash.method \notin BodyLess /\ CallerData.t = "object"
                /\ Len(CallerData.kv) >= 1)
    => /\ ret.hash.body = JSONstringify(CallerData)
       /\ ContentTypeAdded <=> ~(\E k \in DOMAIN MergedHeaders : IsContentTypeKey(k))
       /\ \A k \in DOMAIN MergedHeaders :
             IsContentTypeKey(k) => ReturnedHeaders[k] = MergedHeaders[k]

\* C3 as stated: for every method, a data object with no keys leaves the url
\* unchanged and attaches no body.
C3_EmptyDataNoBody ==
    (ret.called /\ CallerData = Obj(<<>>))
    => /\ ret.hash.url = ret.url
       /\ ret.hash.body = Undefined

\* C3, amended: for every method, a data object with no keys leaves the url unchanged;
\* no body is attached when the resolved method is GET or HEAD, and for every other
\* method the body is the JSON encoding of the empty object, {}.
C3_EmptyData ==
    (ret.called /\ CallerData = Obj(<<>>))
    => /\ ret.hash.url = ret.url
       /\ ret.hash.method \in BodyLess => ret.hash.body = Undefined
       /\ ret.hash.method \notin BodyLess => ret.hash.body = Str("{}")

C3_Witness ==
    /\ ret.called
    /\ CallerData = Obj(<<>>)
    /\ ret.type = "HEAD"
    /\ ret.url = "/widgets?page=2"
    /\ ret.hash.url = "/widgets?page=2"
    /\ ret.hash.body = Undefined

\* C8: ajaxOptions leaves the caller's options object (its url and type included),
\* the caller's options.headers object and the adapter's headers object as they were.
C8_Pure ==
    ret.called
    => /\ ret.optRef # 0 => optObjs[ret.optRef] = optObjs0[ret.optRef]
       /\ \A i \in 1..Len(hdrObjs0) : hdrObjs[i] = hdrObjs0[i]

----------------------------------------------------------------------------
(* Properties of one ajax call, under SpecOne and Spec                     *)

Count(events, name) == Cardinality({i \in 1..Len(events) : events[i].ev = name})
Happened(c, name) == \E i \in 1..Len(log[c]) : log[c][i].ev = name
IndexOfEvent(c, name) == CHOOSE i \in 1..Len(log[c]) : log[c][i].ev = name
ArgOf(c, name) == log[c][IndexOfEvent(c, name)].arg
Settled(c) == pc[c] \in {"SUCCESS", "FAILURE"}

SyntaxErrorBody(c) == Happened(c, "parse") /\ JSONparse(response[c].text).threw

C5_FlaggedRejects ==
    \A c \in Calls :
        (Settled(c) /\ response[c].ok /\ Happened(c, "returned"))
        => LET returned == ArgOf(c, "returned")
           IN  /\ returned.flag => outcome[c] = Rejected(returned)
               /\ ~returned.flag => outcome[c] = Resolved(returned)
               /\ outcome[c].state = "resolved" => ~outcome[c].value.flag

C5_Witness ==
    /\ pc[1] = "FAILURE"
    /\ response[1].ok
    /\ response[1].status = 200
    /\ outcome[1] = Rejected(AdapterError("AdapterError"))

\* C6: when the transport hook rejects with E, the promise of ajax is rejected with E,
\* the transport hook has been invoked once, and the body is never decoded and
\* ajaxSuccess, ajaxError and handleResponse are never invoked.
C6_TransportFailure ==
    \A c \in Calls :
        Happened(c, "transportRejected")
        => /\ outcome[c] = Rejected(ArgOf(c, "transportRejected"))
           /\ pc[c] = "FAILURE"
           /\ log[c] = <<Event("fetch", Undefined),
                         Event("transportRejected", ArgOf(c, "transportRejected"))>>

C6_Witness ==
    /\ pc[1] = "FAILURE"
    /\ outcome[1] = Rejected(ErrorVal("TypeError"))
    /\ Count(log[1], "fetch") = 1
    /\ pc[2] = "SUCCESS"

FalsyDecoded == {Undefined, Null, Bool(FALSE), Num("0"), Str("")}

----------------------------------------------------------------------------
(* Independence of concurrent calls, under Spec                            *)

\* the descriptor call c sends when no other call has run
AloneDescriptor(c) ==
    LET r == ajaxOptions(args[c].url, args[c].type, args[c].optRef,
                         optObjs0, hdrObjs0, adapterHeaders)
    IN  Descriptor(r.hash, r.H)

\* C9: under every interleaving each call sends the descriptor it would send alone
\* and settles as its own response and hooks decide, and the adapter's headers
\* object is never modified.
C9_Independent ==
    /\ hdrObjs[adapterHeaders] = hdrObjs0[adapterHeaders]
    /\ \A c \in Calls :
          /\ pc[c] # "idle" => sent[c] = AloneDescriptor(c)
          /\ Happened(c, "parse")
                => payload[c] = determineBodyPayload(response[c],
                                    [url |-> args[c].url, method |-> args[c].type]).payload
          /\ (Settled(c) /\ Happened(c, "returned")) =>
                outcome[c] = IF response[c].ok THEN ajaxSuccess(ArgOf(c, "returned"))
                             ELSE Rejected(ArgOf(c, "returned"))

====
